---- MODULE Spec2Model ----
(***************************************************************************)
(* AstralDraw: the draw / ticket lifecycle of core/models.py and           *)
(* core/views.py.  Stored rows, the requests in flight (one record per     *)
(* request, its position and its local variables) and the wall clock are   *)
(* the state; every database statement of a view is one atomic step.       *)
(* Text values (JSON text, Fernet tokens, serial numbers) are sequences    *)
(* of one-character strings.                                               *)
(***************************************************************************)
EXTENDS Integers, Sequences, FiniteSets, TLC

(* ------------------------------ bounds --------------------------------- *)
MaxDraws == 1
MaxWallets == 2
MaxReqs == 2
MaxOps == 3
MaxTime == 1
MaxNonce == 2
MaxSeed == 1
MaxPool == 1
MaxCalls == 3
MaxStored == 2
MaxMixed == 3
MaxSaves == 1
FixedDigits == 8
IntDigits == 2

(* ------------------------- program constants --------------------------- *)
KeyLen == 6
MaxDigit == 9
SerialWidth == 4
TopN == 5
SecondaryMin == 4
JackpotTenths == 7
SecondaryTenths == 2
DigitBits == 13
FracDigits == 4

Draws == 1..MaxDraws
Wallets == 1..MaxWallets
Reqs == 1..MaxReqs
Times == 0..MaxTime
Nonces == 1..MaxNonce

(* ------------------------------- text ---------------------------------- *)
DigitChars == <<"0", "1", "2", "3", "4", "5", "6", "7", "8", "9">>

DigitChar(d) == DigitChars[d + 1]

IsDigitChar(c) == \E d \in 0..9 : DigitChars[d + 1] = c

DigitVal(c) == CHOOSE d \in 0..9 : DigitChars[d + 1] = c

RECURSIVE DigitsOf(_)
DigitsOf(n) == IF n < 10 THEN <<DigitChar(n)>>
               ELSE DigitsOf(n \div 10) \o <<DigitChar(n % 10)>>

RECURSIVE ZeroPad(_, _)
ZeroPad(s, w) == IF Len(s) >= w THEN s ELSE ZeroPad(<<"0">> \o s, w)

StartsWith(s, p) == Len(s) >= Len(p) /\ SubSeq(s, 1, Len(p)) = p

(* json.dumps of a list of non-negative ints: "[1, 2, 3]" *)
RECURSIVE JoinItems(_)
JoinItems(l) == IF l = <<>> THEN <<>>
                ELSE IF Len(l) = 1 THEN DigitsOf(l[1])
                ELSE DigitsOf(l[1]) \o <<",", " ">> \o JoinItems(Tail(l))

JsonDumps(l) == <<"[">> \o JoinItems(l) \o <<"]">>

JsonError == [ok |-> FALSE, val |-> <<>>]

(* the items between the brackets, read left to right: cur is the number   *)
(* being read (-1 when none), acc the items read so far                    *)
RECURSIVE ParseItems(_, _, _, _)
ParseItems(s, i, cur, acc) ==
    IF i > Len(s)
    THEN IF cur < 0 THEN JsonError ELSE [ok |-> TRUE, val |-> Append(acc, cur)]
    ELSE IF IsDigitChar(s[i])
    THEN ParseItems(s, i + 1, (IF cur < 0 THEN 0 ELSE cur * 10) + DigitVal(s[i]), acc)
    ELSE IF s[i] = "," /\ cur >= 0
    THEN ParseItems(s, i + 1, -1, Append(acc, cur))
    ELSE IF s[i] = " " /\ cur < 0
    THEN ParseItems(s, i + 1, cur, acc)
    ELSE JsonError

(* json.loads, for the texts this program stores: an array of ints, or a   *)
(* JSONDecodeError                                                         *)
JsonLoads(s) ==
    IF Len(s) < 2 \/ s[1] # "[" \/ s[Len(s)] # "]" THEN JsonError
    ELSE IF Len(s) = 2 THEN [ok |-> TRUE, val |-> <<>>]
    ELSE ParseItems(SubSeq(s, 2, Len(s) - 1), 1, -1, <<>>)

(* ------------------------------ Fernet --------------------------------- *)
(* A Fernet token is base64(0x80 | timestamp | iv | ciphertext | hmac): it *)
(* starts with "gAAAA", and the timestamp and the random iv make it differ *)
(* from one call to the next.  The model keeps the marker, one character   *)
(* for the (timestamp, iv) pair and the sealed plaintext.                  *)
FernetPrefix == <<"g", "A", "A", "A", "A">>

NonceChars == <<"B", "C", "D", "E", "F", "G", "H", "I">>

IsToken(t) == /\ Len(t) > Len(FernetPrefix)
              /\ StartsWith(t, FernetPrefix)
              /\ \E n \in 1..Len(NonceChars) : NonceChars[n] = t[Len(FernetPrefix) + 1]

Fernet_encrypt(data, nonce) == FernetPrefix \o <<NonceChars[nonce]>> \o data

(* Fernet.decrypt: the plaintext, or InvalidToken *)
Fernet_decrypt(t) ==
    IF IsToken(t) THEN [ok |-> TRUE, val |-> SubSeq(t, Len(FernetPrefix) + 2, Len(t))]
    ELSE [ok |-> FALSE, val |-> <<>>]

(* ---------------------------- model layer ------------------------------ *)
(* None (a NULL column) and '' are both falsy; they are different values  *)
None == <<"None">>

Falsy(s) == s = None \/ s = <<>>

encrypt_data(data, nonce) == Fernet_encrypt(data, nonce)

decrypt_data(t) == Fernet_decrypt(t)

(* Draw.get_star_keys and ForgedKey.get_star_keys *)
get_star_keys(field) ==
    IF Falsy(field) THEN <<>>
    ELSE LET d == decrypt_data(field) IN
         IF ~d.ok THEN <<>>
         ELSE LET j == JsonLoads(d.val) IN IF j.ok THEN j.val ELSE <<>>

set_star_keys_plain(keys_list, nonce) == JsonDumps(keys_list)

(* Draw.set_star_keys and ForgedKey.set_star_keys: the new field value *)
set_star_keys(keys_list, nonce) == encrypt_data(JsonDumps(keys_list), nonce)

save_field_unguarded(field, nonce) ==
    IF ~Falsy(field) THEN encrypt_data(field, nonce) ELSE field

(* the secret field as Draw.save, ForgedKey.save and UserWallet.save write it *)
save_field(field, nonce) ==
    IF ~Falsy(field) /\ ~StartsWith(field, FernetPrefix)
    THEN encrypt_data(field, nonce)
    ELSE field

(* set(keys) *)
SetOf(l) == {l[i] : i \in 1..Len(l)}

(* len([k for k in keys if k % 2 == r]) *)
CountParity(keys, r) == Cardinality({i \in 1..Len(keys) : keys[i] % 2 = r})

calculate_rarity_identical_first(field) ==
    LET keys == get_star_keys(field) IN
    IF keys = <<>> THEN "Common"
    ELSE IF Cardinality(SetOf(keys)) = 6 THEN "Rare"
    ELSE IF Cardinality(SetOf(keys)) = 1 THEN "Legendary"
    ELSE IF CountParity(keys, 0) = 6 THEN "Epic"
    ELSE IF CountParity(keys, 1) = 6 THEN "Epic"
    ELSE "Common"

calculate_rarity_even_only(field) ==
    LET keys == get_star_keys(field) IN
    IF keys = <<>> THEN "Common"
    ELSE IF Cardinality(SetOf(keys)) = 6 THEN "Rare"
    ELSE IF CountParity(keys, 0) = 6 THEN "Epic"
    ELSE IF Cardinality(SetOf(keys)) = 1 THEN "Legendary"
    ELSE "Common"

(* ForgedKey.calculate_rarity, for an instance whose star_keys is field *)
calculate_rarity(field) ==
    LET keys == get_star_keys(field) IN
    IF keys = <<>> THEN "Common"
    ELSE IF Cardinality(SetOf(keys)) = 6 THEN "Rare"
    ELSE IF CountParity(keys, 0) = 6 THEN "Epic"
    ELSE IF CountParity(keys, 1) = 6 THEN "Epic"
    ELSE IF Cardinality(SetOf(keys)) = 1 THEN "Legendary"
    ELSE "Common"

(* Draw.can_participate *)
can_participate(status, draw_datetime, tnow) ==
    status \in {"UPCOMING", "ACTIVE"} /\ draw_datetime > tnow

(* f"AK{draw_id:04d}{user_wallet_id:04d}{next_serial:04d}" *)
serial_number(draw_id, wallet_id, next_serial) ==
    <<"A", "K">> \o ZeroPad(DigitsOf(draw_id), SerialWidth)
                 \o ZeroPad(DigitsOf(wallet_id), SerialWidth)
                 \o ZeroPad(DigitsOf(next_serial), SerialWidth)

(* [random.randint(0, 9) for _ in range(6)]: any six digits; the model    *)
(* draws them from a bounded family                                        *)
KeyFamily(seeds, offsets) ==
    {[i \in 1..KeyLen |-> (a * i + b) % (MaxDigit + 1)] : a \in seeds, b \in offsets}

RandomKeys == KeyFamily(0..MaxSeed, {0})

(* submitted star_keys: the valid combinations, one of length 5 and one    *)
(* holding a 10                                                            *)
KeyInputs ==
    RandomKeys \cup {SubSeq(k, 1, KeyLen - 1) : k \in RandomKeys}
               \cup {[k EXCEPT ![1] = MaxDigit + 1] : k \in RandomKeys}

valid_keys_length_only(star_keys) == Len(star_keys) = KeyLen

(* len(star_keys) != 6 or not all(isinstance(k, int) and 0 <= k <= 9 ...) *)
valid_keys(star_keys) ==
    Len(star_keys) = KeyLen /\ \A i \in 1..Len(star_keys) : star_keys[i] \in 0..MaxDigit

PrizePools == {100 * k : k \in 1..MaxPool}

(* ------------------------------- floats -------------------------------- *)
(* A Python float, an IEEE-754 binary64, zero or above: exp is its         *)
(* exponent, lead the leading bit of its significand (0 in the float 0.0   *)
(* only) and frac the 52 bits of its fraction field, as FracDigits digits  *)
(* to the base 2^DigitBits.  Its value is                                  *)
(*   2^exp * (lead + frac[1] / DigitBase + frac[2] / DigitBase^2 + ...).   *)
DigitBase == 2^DigitBits

FloatZero == [exp |-> 0, lead |-> 0, frac |-> [i \in 1..FracDigits |-> 0]]

(* p / q as p1 / q1 * 2^exp with q1 <= p1 < 2 * q1 *)
RECURSIVE normalise(_, _, _)
normalise(p, q, e) ==
    IF p < q THEN normalise(2 * p, q, e - 1)
    ELSE IF p >= 2 * q THEN normalise(p, 2 * q, e + 1)
    ELSE [p |-> p, q |-> q, exp |-> e]

(* the next n digits of r / q to the base DigitBase, r < q, and what is    *)
(* left of r behind them                                                    *)
RECURSIVE long_division(_, _, _)
long_division(r, q, n) ==
    IF n = 0 THEN [digits |-> <<>>, rem |-> r]
    ELSE LET rest == long_division((r * DigitBase) % q, q, n - 1)
         IN [digits |-> <<(r * DigitBase) \div q>> \o rest.digits, rem |-> rest.rem]

(* the digits of k * a + c, a being digits to the base DigitBase with the  *)
(* most significant first, and the carry out of them                       *)
RECURSIVE times_plus(_, _, _)
times_plus(a, k, c) ==
    IF a = <<>> THEN [digits |-> <<>>, carry |-> c]
    ELSE LET rest == times_plus(Tail(a), k, c)
             sum == k * Head(a) + rest.carry
         IN [digits |-> <<sum % DigitBase>> \o rest.digits,
             carry |-> sum \div DigitBase]

(* the digits of a divided by n, r being carried in, and the remainder *)
RECURSIVE divide_digits(_, _, _)
divide_digits(a, r, n) ==
    IF a = <<>> THEN [digits |-> <<>>, rem |-> r]
    ELSE LET cur == r * DigitBase + Head(a)
             rest == divide_digits(Tail(a), cur % n, n)
         IN [digits |-> <<cur \div n>> \o rest.digits, rem |-> rest.rem]

(* round to nearest, ties to even: up is whether what was cut off is more  *)
(* than half of the last place, tie whether it is exactly half             *)
round_nearest(exp, frac, up, tie) ==
    IF up \/ (tie /\ frac[Len(frac)] % 2 = 1)
    THEN LET inc == times_plus(frac, 1, 1) IN
         [exp |-> exp + inc.carry, lead |-> 1, frac |-> inc.digits]
    ELSE [exp |-> exp, lead |-> 1, frac |-> frac]

(* float(Decimal) of the decimal p / q: the float nearest to it *)
float_of(p, q) ==
    IF p = 0 THEN FloatZero
    ELSE LET n == normalise(p, q, 0)
             d == long_division(n.p - n.q, n.q, FracDigits)
         IN round_nearest(n.exp, d.digits, 2 * d.rem > n.q, 2 * d.rem = n.q)

(* x / n for a float x and an int n in 1..DigitBase: the float nearest to  *)
(* the quotient                                                             *)
float_div(x, n) ==
    IF x.lead = 0 THEN FloatZero
    ELSE LET quotient(z) ==
                 LET t == times_plus(x.frac, 2^z, 0)
                 IN divide_digits(<<2^z * x.lead + t.carry>> \o t.digits, 0, n)
             z == CHOOSE z \in 0..DigitBits :
                      /\ Head(quotient(z).digits) >= 1
                      /\ \A y \in 0..(z - 1) : Head(quotient(y).digits) = 0
             q == quotient(z)
         IN round_nearest(x.exp - z, Tail(q.digits), 2 * q.rem > n, 2 * q.rem = n)

(* ------------------------------- state --------------------------------- *)
VARIABLES
    draws,      \* Draw rows, by id (1..Len(draws))
    tickets,    \* ForgedKey rows, by id, in creation order
    now,        \* timezone.now()
    req,        \* the requests in flight and the last response of each worker
    ops,        \* requests started so far
    obj         \* a model instance outside any request (codec operations)

vars == <<draws, tickets, now, req, ops, obj>>

NoSerial == None

NoWallet == 0

NoDraw == [status |-> "NONE", draw_datetime |-> 0, star_keys |-> <<>>, prize_pool |-> 0,
           total_tickets_sold |-> 0, total_prize_distributed |-> 0,
           winning_ticket_serial |-> NoSerial, winner_wallet |-> NoWallet]

(* Draw.objects.create(title, prize_pool, draw_datetime, status=UPCOMING) *)
NewDraw(prize_pool, draw_datetime) ==
    [NoDraw EXCEPT !.status = "UPCOMING", !.draw_datetime = draw_datetime,
                   !.prize_pool = prize_pool]

IdleReq == [op |-> "none", pc |-> "idle", staff |-> FALSE, draw |-> 0, wallet |-> 0,
            keys |-> <<>>, read |-> NoDraw, snap |-> NoDraw, serial |-> NoSerial,
            winner |-> 0, success |-> FALSE, error |-> "none", id |-> 0, out |-> <<>>]

NoObj == [cls |-> "none", input |-> <<>>, field |-> <<>>, prev |-> <<>>, stored |-> <<>>,
          out |-> <<>>, hist |-> <<>>, arg |-> 0, label |-> "none"]

Startable(r) == req[r].pc \in {"idle", "done"} /\ ops < MaxOps

Begin(r, op, staff, d, w, keys) ==
    [IdleReq EXCEPT !.op = op, !.staff = staff, !.draw = d, !.wallet = w, !.keys = keys,
                    !.id = ops + 1]

(* the response; the locals of the request are gone with it *)
Fail(rec, error) ==
    [IdleReq EXCEPT !.op = rec.op, !.pc = "done", !.staff = rec.staff, !.draw = rec.draw,
                    !.error = error, !.id = rec.id]

Succeed(rec) ==
    [IdleReq EXCEPT !.op = rec.op, !.pc = "done", !.staff = rec.staff, !.draw = rec.draw,
                    !.serial = rec.serial, !.winner = rec.winner, !.success = TRUE,
                    !.id = rec.id]

admin_access_any(staff) == TRUE

(* request.user.is_staff *)
admin_access(staff) == staff

Init ==
    /\ draws = <<>>
    /\ tickets = <<>>
    /\ now = 0
    /\ req = [r \in Reqs |-> IdleReq]
    /\ ops = 0
    /\ obj = NoObj

(* ------------------------------ the clock ------------------------------ *)
Tick ==
    /\ now < MaxTime
    /\ now' = now + 1
    /\ UNCHANGED <<draws, tickets, req, ops, obj>>

(* ----------------------------- create_draw ----------------------------- *)
(* the staff check, the required fields, the generated keys and the INSERT *)
CreateDraw(r) ==
    /\ Startable(r)
    /\ \E staff \in BOOLEAN, fields \in BOOLEAN, pool \in PrizePools, dt \in Times,
          winning_keys \in RandomKeys :
         LET rec == Begin(r, "create_draw", staff, 0, 0, <<>>) IN
         IF ~admin_access(staff)
         THEN /\ req' = [req EXCEPT ![r] = Fail(rec, "Admin access required")]
              /\ UNCHANGED draws
         ELSE IF ~fields
         THEN /\ req' = [req EXCEPT ![r] = Fail(rec, "Missing required fields")]
              /\ UNCHANGED draws
         ELSE /\ Len(draws) < MaxDraws
              /\ draws' = Append(draws, NewDraw(pool, dt))
              /\ req' = [req EXCEPT ![r] =
                            [rec EXCEPT !.pc = "cd_save", !.draw = Len(draws) + 1,
                                        !.keys = winning_keys,
                                        !.snap = NewDraw(pool, dt)]]
    /\ ops' = ops + 1
    /\ UNCHANGED <<tickets, now, obj>>

(* draw.set_star_keys(winning_keys); draw.save(): the whole row is written *)
(* from the instance built by the INSERT                                   *)
CreateDrawSave(r) ==
    /\ req[r].pc = "cd_save"
    /\ \E n1 \in Nonces, n2 \in Nonces :
         LET inst == [req[r].snap EXCEPT !.star_keys = set_star_keys(req[r].keys, n1)]
             row == [inst EXCEPT !.star_keys = save_field(inst.star_keys, n2)]
         IN /\ draws' = [draws EXCEPT ![req[r].draw] = row]
            /\ req' = [req EXCEPT ![r] = Succeed(req[r])]
    /\ UNCHANGED <<tickets, now, ops, obj>>

(* ---------------- administrative status changes (spec 4.2) ------------- *)
Activate(d) ==
    /\ d \in 1..Len(draws)
    /\ draws[d].status = "UPCOMING"
    /\ draws' = [draws EXCEPT ![d].status = "ACTIVE"]
    /\ UNCHANGED <<tickets, now, req, ops, obj>>

Cancel(d) ==
    /\ d \in 1..Len(draws)
    /\ draws[d].status \in {"UPCOMING", "ACTIVE"}
    /\ draws' = [draws EXCEPT ![d].status = "CANCELLED"]
    /\ UNCHANGED <<tickets, now, req, ops, obj>>

(* ----------------------------- submit_keys ----------------------------- *)
(* ForgedKey.objects.filter(draw_id=draw_id), oldest first *)
TicketsOf(d) == {t \in 1..Len(tickets) : tickets[t].draw = d}

serial_unique_off(serial) == TRUE

(* unique=True on serial_number (unique_together holds whenever it does) *)
serial_unique(serial) == \A t \in 1..Len(tickets) : tickets[t].serial_number # serial

(* ForgedKey.objects.create(user_wallet_id, draw_id, serial_number): no    *)
(* star_keys is given, the column is NULL                                  *)
NewTicket(w, d, serial) ==
    [user_wallet |-> w, draw |-> d, serial_number |-> serial, star_keys |-> None]

(* the SELECT of the draw, can_participate and the validation of the body; *)
(* the record of a finished submission keeps the star_keys of its body     *)
SubmitStart(r) ==
    /\ Startable(r)
    /\ \E d \in 1..Len(draws), w \in Wallets, star_keys \in KeyInputs :
         LET rec == Begin(r, "submit_keys", FALSE, d, w, star_keys) IN
         req' = [req EXCEPT ![r] =
                   IF ~can_participate(draws[d].status, draws[d].draw_datetime, now)
                   THEN Fail(rec, "Draw not accepting submissions")
                   ELSE IF ~valid_keys(star_keys)
                   THEN [Fail(rec, "Invalid keys format") EXCEPT !.keys = star_keys]
                   ELSE [rec EXCEPT !.pc = "sk_exists"]]
    /\ ops' = ops + 1
    /\ UNCHANGED <<draws, tickets, now, obj>>

(* ForgedKey.objects.filter(user_wallet_id, draw_id).exists() *)
SubmitExists(r) ==
    /\ req[r].pc = "sk_exists"
    /\ req' = [req EXCEPT ![r] =
                 IF \E t \in TicketsOf(req[r].draw) : tickets[t].user_wallet = req[r].wallet
                 THEN Fail(req[r], "Already submitted")
                 ELSE [req[r] EXCEPT !.pc = "sk_count"]]
    /\ UNCHANGED <<draws, tickets, now, ops, obj>>

(* inside transaction.atomic(): the count of the committed tickets of the *)
(* draw, and the serial built from it                                      *)
SubmitCount(r) ==
    /\ req[r].pc = "sk_count"
    /\ LET next_serial == Cardinality(TicketsOf(req[r].draw)) + 1 IN
       req' = [req EXCEPT ![r] =
                 [req[r] EXCEPT !.pc = "sk_create",
                                !.serial = serial_number(req[r].draw, req[r].wallet,
                                                         next_serial)]]
    /\ UNCHANGED <<draws, tickets, now, ops, obj>>

(* the INSERT, forged_key.set_star_keys (on the instance only: nothing     *)
(* saves it), the F() increment and the commit; a duplicate serial raises  *)
(* IntegrityError, caught by the view                                      *)
SubmitCreate(r) ==
    /\ req[r].pc = "sk_create"
    /\ IF serial_unique(req[r].serial)
       THEN /\ tickets' = Append(tickets,
                                 NewTicket(req[r].wallet, req[r].draw, req[r].serial))
            /\ draws' = [draws EXCEPT ![req[r].draw].total_tickets_sold = @ + 1]
            /\ req' = [req EXCEPT ![r] = [Succeed(req[r]) EXCEPT !.keys = req[r].keys]]
       ELSE /\ req' = [req EXCEPT ![r] = Fail(req[r], "Submission failed")]
            /\ UNCHANGED <<draws, tickets>>
    /\ UNCHANGED <<now, ops, obj>>

(* ----------------------------- process_draw ---------------------------- *)
(* draw.prize_pool * 0.7: Decimal times float raises TypeError *)
decimal_times_float(prize_pool) == [ok |-> FALSE, val |-> 0]

cannot_process_status_only(status, draw_datetime, tnow) == status # "ACTIVE"

(* draw.status != ACTIVE or draw.draw_datetime > timezone.now() *)
cannot_process(status, draw_datetime, tnow) ==
    status # "ACTIVE" \/ draw_datetime > tnow

exact_match_any_draw(d, star_keys) ==
    LET hits == {t \in 1..Len(tickets) : tickets[t].star_keys = star_keys} IN
    IF hits = {} THEN 0 ELSE CHOOSE t \in hits : \A u \in hits : u <= t

(* ForgedKey.objects.filter(draw=self, star_keys=self.star_keys).first(),  *)
(* in the model's ordering (-created_at): the newest match, 0 for None     *)
exact_match(d, star_keys) ==
    LET hits == {t \in TicketsOf(d) : tickets[t].star_keys = star_keys} IN
    IF hits = {} THEN 0 ELSE CHOOSE t \in hits : \A u \in hits : u <= t

(* the ticket Draw.map_winner returns for the instance inst of draw d *)
map_winner(d, inst) ==
    LET winning_keys == get_star_keys(inst.star_keys) IN
    IF winning_keys = <<>> \/ Len(winning_keys) # KeyLen THEN 0
    ELSE exact_match(d, inst.star_keys)

(* the staff check, the SELECT of the whole row (read keeps it as it was   *)
(* returned, snap is the instance the request works on) and the guard      *)
ProcessStart(r) ==
    /\ Startable(r)
    /\ \E staff \in BOOLEAN, d \in 1..Len(draws) :
         LET rec == Begin(r, "process_draw", staff, d, 0, <<>>) IN
         req' = [req EXCEPT ![r] =
                   IF ~admin_access(staff) THEN Fail(rec, "Admin access required")
                   ELSE IF cannot_process(draws[d].status, draws[d].draw_datetime, now)
                   THEN Fail(rec, "Draw cannot be processed")
                   ELSE [rec EXCEPT !.pc = "pd_winner", !.read = draws[d],
                                    !.snap = draws[d]]]
    /\ ops' = ops + 1
    /\ UNCHANGED <<draws, tickets, now, obj>>

(* winner = draw.map_winner(), the query: without a match map_winner       *)
(* returns None and the view goes on to its transaction                     *)
ProcessMapWinner(r) ==
    /\ req[r].pc = "pd_winner"
    /\ LET w == map_winner(req[r].draw, req[r].snap)
       IN req' = [req EXCEPT ![r] =
                    IF w = 0 THEN [req[r] EXCEPT !.pc = "pd_update"]
                    ELSE [req[r] EXCEPT !.pc = "pd_save", !.winner = w]]
    /\ UNCHANGED <<draws, tickets, now, ops, obj>>

(* map_winner on a match: self.save() of the instance read by ProcessStart *)
(* with the winner fields set, a statement of its own after the query       *)
ProcessSave(r) ==
    /\ req[r].pc = "pd_save"
    /\ LET d == req[r].draw
           w == req[r].winner
       IN \E n \in Nonces :
            LET inst == [req[r].snap EXCEPT
                            !.winning_ticket_serial = tickets[w].serial_number,
                            !.winner_wallet = tickets[w].user_wallet,
                            !.star_keys = save_field(@, n)]
            IN /\ draws' = [draws EXCEPT ![d] = inst]
               /\ req' = [req EXCEPT ![r] =
                            [req[r] EXCEPT !.pc = "pd_update", !.snap = inst]]
    /\ UNCHANGED <<tickets, now, ops, obj>>

(* with transaction.atomic(): the UPDATE of the draw; an exception leaves  *)
(* the block without it and the view answers with a failure                *)
ProcessUpdate(r) ==
    /\ req[r].pc = "pd_update"
    /\ LET d == req[r].draw
           w == req[r].winner
           prize_amount == decimal_times_float(req[r].snap.prize_pool)
       IN IF w = 0
          THEN /\ draws' = [draws EXCEPT ![d].status = "ENDED"]
               /\ req' = [req EXCEPT ![r] = Succeed(req[r])]
          ELSE IF ~prize_amount.ok
          THEN /\ req' = [req EXCEPT ![r] = Fail(req[r], "TypeError")]
               /\ UNCHANGED draws
          ELSE /\ draws' = [draws EXCEPT ![d].total_prize_distributed = prize_amount.val,
                                         ![d].status = "ENDED",
                                         ![d].winner_wallet = tickets[w].user_wallet,
                                         ![d].winning_ticket_serial =
                                             tickets[w].serial_number]
               /\ req' = [req EXCEPT ![r] = Succeed(req[r])]
    /\ UNCHANGED <<tickets, now, ops, obj>>

(* ----------------------------- draw_detail ----------------------------- *)
(* draw_data as the view fills it from the row inst of draw d *)
draw_data(d, inst, tnow) ==
    [id |-> d,
     status |-> inst.status,
     prize_pool |-> float_of(inst.prize_pool, 1),
     draw_datetime |-> inst.draw_datetime,
     total_tickets_sold |-> inst.total_tickets_sold,
     can_participate |-> can_participate(inst.status, inst.draw_datetime, tnow)]

(* the response of draw_detail.  inst is the row get_object_or_404 read    *)
(* without star_keys, star_keys the column as the deferred load returns it *)
(* when draw.get_star_keys() first touches it.  For an ENDED draw with a   *)
(* winner the lookup userwallet__id names no relation of User (the reverse *)
(* name is wallet), the query raises FieldError and the request ends       *)
(* without a draw_data                                                      *)
draw_detail(d, inst, star_keys, tnow) ==
    IF inst.status = "ENDED"
    THEN IF inst.winner_wallet # NoWallet
         THEN [raised |-> "FieldError"]
         ELSE draw_data(d, inst, tnow) @@ [winning_keys |-> get_star_keys(star_keys)]
    ELSE draw_data(d, inst, tnow)

(* get_object_or_404(Draw.objects.only(...)): the row without star_keys;   *)
(* a draw that is not ENDED is answered from it                             *)
DrawDetail(r) ==
    /\ Startable(r)
    /\ \E d \in 1..Len(draws) :
         LET rec == Begin(r, "draw_detail", FALSE, d, 0, <<>>)
             row == [draws[d] EXCEPT !.star_keys = <<>>]
         IN req' = [req EXCEPT ![r] =
                      IF row.status = "ENDED"
                      THEN [rec EXCEPT !.pc = "dd_keys", !.read = row]
                      ELSE [Succeed(rec) EXCEPT !.out = draw_detail(d, row, <<>>, now)]]
    /\ ops' = ops + 1
    /\ UNCHANGED <<draws, tickets, now, obj>>

(* draw.get_star_keys() on the ENDED row: the SELECT of the deferred       *)
(* star_keys, then the winner lookup and the response                       *)
DrawDetailKeys(r) ==
    /\ req[r].pc = "dd_keys"
    /\ LET d == req[r].draw
           out == draw_detail(d, req[r].read, draws[d].star_keys, now)
       IN req' = [req EXCEPT ![r] =
                    IF "raised" \in DOMAIN out THEN Fail(req[r], out.raised)
                    ELSE [Succeed(req[r]) EXCEPT !.out = out]]
    /\ UNCHANGED <<draws, tickets, now, ops, obj>>

(* --------------------------- the specification ------------------------- *)
(* The views from the empty database.  ProcessSave needs a ticket whose    *)
(* stored token equals the draw's; submit_keys stores no token, so no      *)
(* request started here comes to it, and it is a step of NextEngine.        *)
Next ==
    \/ Tick
    \/ \E d \in Draws : Activate(d) \/ Cancel(d)
    \/ \E r \in Reqs :
         \/ CreateDraw(r) \/ CreateDrawSave(r)
         \/ SubmitStart(r) \/ SubmitExists(r) \/ SubmitCount(r) \/ SubmitCreate(r)
         \/ ProcessStart(r) \/ ProcessMapWinner(r) \/ ProcessUpdate(r)
         \/ DrawDetail(r) \/ DrawDetailKeys(r)

Spec == Init /\ [][Next]_vars

(* ------------------- the model instances on their own ------------------ *)
(* One Draw, ForgedKey or UserWallet instance and the calls of its codec   *)
(* methods: set_star_keys, get_star_keys, save.  input is the combination  *)
(* (or the private key) it is given, field the secret attribute, stored    *)
(* the column as last saved, prev the token of the set_star_keys before    *)
(* the last one, out the last get_star_keys, hist the calls made.          *)
CodecKeys == KeyFamily(0..MaxSeed, 0..MaxDigit)

PrivateKeys == {<<"3", "0", "2", "e">>, <<"a", "9", "f">>}

(* combinations with repeated symbols: all odd, all even, mixed *)
PatternKeys == {<<1, 3, 1, 3, 1, 3>>, <<2, 2, 4, 4, 6, 6>>, <<1, 1, 2, 3, 4, 5>>,
                <<2, 2, 2, 2, 2, 3>>}

InitCodec ==
    /\ draws = <<>>
    /\ tickets = <<>>
    /\ now = 0
    /\ req = [r \in Reqs |-> IdleReq]
    /\ ops = 0
    /\ obj \in {[NoObj EXCEPT !.cls = "Draw", !.input = k, !.field = <<>>] : k \in CodecKeys}
          \cup {[NoObj EXCEPT !.cls = "ForgedKey", !.input = k, !.field = None] :
                  k \in CodecKeys \cup PatternKeys}
          \cup {[NoObj EXCEPT !.cls = "UserWallet", !.input = k, !.field = k] :
                  k \in PrivateKeys}

CodecCall == Len(obj.hist) < MaxCalls /\ obj.cls # "none"

(* instance.set_star_keys(input) *)
CodecSetStarKeys ==
    /\ CodecCall
    /\ obj.cls \in {"Draw", "ForgedKey"}
    /\ \E n \in Nonces :
         obj' = [obj EXCEPT !.field = set_star_keys(obj.input, n),
                            !.prev = IF \E i \in 1..Len(obj.hist) : obj.hist[i] = "set"
                                     THEN obj.field ELSE <<>>,
                            !.hist = Append(@, "set")]
    /\ UNCHANGED <<draws, tickets, now, req, ops>>

(* instance.get_star_keys() *)
CodecGetStarKeys ==
    /\ CodecCall
    /\ obj.cls \in {"Draw", "ForgedKey"}
    /\ obj' = [obj EXCEPT !.out = get_star_keys(obj.field), !.hist = Append(@, "get")]
    /\ UNCHANGED <<draws, tickets, now, req, ops>>

(* instance.save() *)
CodecSave ==
    /\ CodecCall
    /\ \E n \in Nonces :
         LET f == save_field(obj.field, n) IN
         obj' = [obj EXCEPT !.field = f, !.stored = f, !.hist = Append(@, "save")]
    /\ UNCHANGED <<draws, tickets, now, req, ops>>

(* forged_key.calculate_rarity() *)
CodecRarity ==
    /\ CodecCall
    /\ obj.cls = "ForgedKey"
    /\ obj' = [obj EXCEPT !.label = calculate_rarity(obj.field), !.hist = Append(@, "rarity")]
    /\ UNCHANGED <<draws, tickets, now, req, ops>>

NextCodec == CodecSetStarKeys \/ CodecGetStarKeys \/ CodecSave \/ CodecRarity

SpecCodec == InitCodec /\ [][NextCodec]_vars

(* --------------------- processing over stored rows --------------------- *)
(* process_draw over rows as the model layer stores them: draw 1, saved by *)
(* create_draw and since activated, draw 2, another draw not yet open with *)
(* a token of its own, and tickets of either draw whose star_keys column   *)
(* is NULL (as submit_keys leaves it) or a token written by ForgedKey.save *)
(* for an instance whose star_keys was set.                                *)
StoredKeys == {None} \cup {set_star_keys(k, n) : k \in RandomKeys, n \in Nonces}

StoredDraws == 1..2

TicketChoices == [user_wallet : Wallets, draw : StoredDraws, star_keys : StoredKeys]

StoredTickets ==
    UNION {{[i \in 1..m |-> [user_wallet |-> c[i].user_wallet, draw |-> c[i].draw,
                              serial_number |-> serial_number(c[i].draw, c[i].user_wallet, i),
                              star_keys |-> c[i].star_keys]] :
              c \in [1..m -> TicketChoices]} : m \in 0..MaxStored}

OtherNonce(n) == (n % MaxNonce) + 1

InitEngine ==
    /\ tickets \in StoredTickets
    /\ \E pool \in PrizePools, dt \in Times, k \in RandomKeys, n \in Nonces :
         draws = <<[NewDraw(pool, dt) EXCEPT !.status = "ACTIVE",
                                             !.star_keys = set_star_keys(k, n),
                                             !.total_tickets_sold = Cardinality(TicketsOf(1))],
                   [NewDraw(pool, MaxTime) EXCEPT
                        !.star_keys = set_star_keys(k, OtherNonce(n)),
                        !.total_tickets_sold = Cardinality(TicketsOf(2))]>>
    /\ now = MaxTime
    /\ req = [r \in Reqs |-> IdleReq]
    /\ ops = 0
    /\ obj = NoObj

NextEngine ==
    \E r \in Reqs :
        ProcessStart(r) \/ ProcessMapWinner(r) \/ ProcessSave(r) \/ ProcessUpdate(r)

SpecEngine == InitEngine /\ [][NextEngine]_vars

(* ------------------- the reports over stored rows --------------------- *)
(* ForgedKey.objects.filter(draw=self) in the ordering of ForgedKey.Meta    *)
(* (-created_at): the ids of the tickets of draw d, newest first            *)
RECURSIVE NewestFirst(_)
NewestFirst(S) ==
    IF S = {} THEN <<>>
    ELSE LET t == CHOOSE x \in S : \A y \in S : y <= x IN <<t>> \o NewestFirst(S \ {t})

forged_keys(d) == NewestFirst(TicketsOf(d))

(* the entry map_nearest_winner builds for ticket fk *)
match_entry(fk, winning_keys) ==
    LET ticket_keys == SetOf(get_star_keys(tickets[fk].star_keys)) IN
    [forged_key |-> fk,
     match_count |-> Cardinality(winning_keys \cap ticket_keys),
     matched_keys |-> winning_keys \cap ticket_keys]

(* the loop over forged_keys: the entries with match_count >= min_matches, *)
(* in the order the tickets were retrieved                                  *)
RECURSIVE collect_matches(_, _, _)
collect_matches(fks, winning_keys, min_matches) ==
    IF fks = <<>> THEN <<>>
    ELSE LET e == match_entry(Head(fks), winning_keys) IN
         (IF e.match_count >= min_matches THEN <<e>> ELSE <<>>)
             \o collect_matches(Tail(fks), winning_keys, min_matches)

RECURSIVE insert_match_before_equal(_, _)
insert_match_before_equal(l, e) ==
    IF l = <<>> THEN <<e>>
    ELSE IF Head(l).match_count > e.match_count
    THEN <<Head(l)>> \o insert_match_before_equal(Tail(l), e)
    ELSE <<e>> \o l

(* e placed behind every entry of the sorted list l that does not count    *)
(* less than it                                                             *)
RECURSIVE insert_match(_, _)
insert_match(l, e) ==
    IF l = <<>> THEN <<e>>
    ELSE IF Head(l).match_count >= e.match_count THEN <<Head(l)>> \o insert_match(Tail(l), e)
    ELSE <<e>> \o l

RECURSIVE sort_from(_, _)
sort_from(sorted, rest) ==
    IF rest = <<>> THEN sorted ELSE sort_from(insert_match(sorted, Head(rest)), Tail(rest))

sort_matches_none(matches) == matches

(* matches.sort(key=match_count, reverse=True): a stable sort *)
sort_matches(matches) == sort_from(<<>>, matches)

(* Draw.map_nearest_winner(min_matches) for the instance inst of draw d *)
map_nearest_winner(d, inst, min_matches) ==
    LET winning_keys == SetOf(get_star_keys(inst.star_keys)) IN
    IF winning_keys = {} \/ Cardinality(winning_keys) # KeyLen THEN <<>>
    ELSE sort_matches(collect_matches(forged_keys(d), winning_keys, min_matches))

Min(a, b) == IF a < b THEN a ELSE b

(* nearest_winners[:5] *)
top_winners(nearest_winners) ==
    SubSeq(nearest_winners, 1, Min(TopN, Len(nearest_winners)))

(* prize_distribution == {} *)
NoDistribution ==
    [computed |-> FALSE,
     jackpot_winner |-> [wallet |-> NoWallet, amount |-> FloatZero,
                         ticket_serial |-> NoSerial],
     secondary_winners |-> <<>>]

(* the prize_distribution of Draw.get_draw_statistics for the instance     *)
(* inst of draw d                                                           *)
prize_distribution(d, inst) ==
    IF inst.status = "ENDED" /\ inst.winner_wallet # NoWallet
    THEN LET nearest_winners == map_nearest_winner(d, inst, SecondaryMin)
             top == top_winners(nearest_winners)
             prize_per_winner ==
                 float_div(float_of(SecondaryTenths * inst.prize_pool, 10),
                           Min(TopN, Len(nearest_winners)))
         IN [computed |-> TRUE,
             jackpot_winner |-> [wallet |-> inst.winner_wallet,
                                 amount |-> float_of(JackpotTenths * inst.prize_pool, 10),
                                 ticket_serial |-> inst.winning_ticket_serial],
             secondary_winners |->
                 [i \in 1..Len(top) |->
                     [wallet |-> tickets[top[i].forged_key].user_wallet,
                      amount |-> prize_per_winner,
                      match_count |-> top[i].match_count,
                      ticket_serial |-> tickets[top[i].forged_key].serial_number]]]
    ELSE NoDistribution

(* Draw.get_draw_statistics, total_tickets being what its COUNT returned   *)
(* and tickets the rows its SELECT in map_nearest_winner reads              *)
get_draw_statistics(d, inst, total_tickets) ==
    [status |-> inst.status,
     total_tickets_sold |-> total_tickets,
     prize_pool |-> float_of(inst.prize_pool, 1),
     winning_keys |-> get_star_keys(inst.star_keys),
     prize_distribution |-> prize_distribution(d, inst)]

(* Stored rows for the reports: draw 1 is the draw reported on, draw 2     *)
(* another draw with tickets of its own.  A ticket is NULL (as submit_keys *)
(* leaves it) or holds the token of a run of six digits that shares six,   *)
(* five, ... down to one less than SecondaryMin symbols with 1..6.  Lists  *)
(* longer than MaxMixed hold tickets that share six or five.  The winning  *)
(* combination is 1..6 or one with a repeated digit.                        *)
ShiftKeys == KeyFamily({1}, 0..(KeyLen - SecondaryMin + 1))

StatWinning == KeyFamily({1}, {0}) \cup {<<1, 1, 2, 3, 4, 5>>}

TicketKinds ==
    [draw : {1}, star_keys : {None} \cup {set_star_keys(k, 1) : k \in ShiftKeys}]
        \cup {[draw |-> 2, star_keys |-> set_star_keys(k, 1)] : k \in KeyFamily({1}, {0})}

QualifyingKinds ==
    [draw : {1}, star_keys : {set_star_keys(k, 1) : k \in KeyFamily({1}, {0, 1})}]

StatTicketLists ==
    UNION {[1..m -> TicketKinds] : m \in 0..MaxMixed}
        \cup UNION {[1..m -> QualifyingKinds] : m \in (MaxMixed + 1)..(TopN + 1)}

StatWallet(i) == ((i - 1) % MaxWallets) + 1

StatTickets ==
    {[i \in 1..Len(c) |-> [user_wallet |-> StatWallet(i), draw |-> c[i].draw,
                            serial_number |-> serial_number(c[i].draw, StatWallet(i), i),
                            star_keys |-> c[i].star_keys]] : c \in StatTicketLists}

(* the winner fields as map_winner saves them: none, or the ticket its    *)
(* query returns                                                            *)
InitStats ==
    /\ tickets \in StatTickets
    /\ \E pool \in PrizePools, k \in StatWinning, status \in {"ACTIVE", "ENDED"} :
       \E w \in {0, exact_match(1, set_star_keys(k, 1))} :
         /\ draws = <<[NewDraw(pool, 0) EXCEPT
                          !.status = status,
                          !.star_keys = set_star_keys(k, 1),
                          !.total_tickets_sold = Cardinality(TicketsOf(1)),
                          !.winning_ticket_serial =
                              IF w = 0 THEN NoSerial ELSE tickets[w].serial_number,
                          !.winner_wallet =
                              IF w = 0 THEN NoWallet ELSE tickets[w].user_wallet],
                     [NewDraw(pool, MaxTime) EXCEPT
                          !.star_keys = set_star_keys(k, 1),
                          !.total_tickets_sold = Cardinality(TicketsOf(2))]>>
    /\ now = MaxTime
    /\ req = [r \in Reqs |-> IdleReq]
    /\ ops = 0
    /\ obj = NoObj

Thresholds == 0..(KeyLen + 1)

(* draw.map_nearest_winner(min_matches) on draw 1 *)
StatNearest ==
    /\ obj.hist = <<>>
    /\ \E min_matches \in Thresholds :
         obj' = [NoObj EXCEPT !.cls = "Draw", !.arg = min_matches,
                              !.out = map_nearest_winner(1, draws[1], min_matches),
                              !.hist = <<"nearest">>]
    /\ UNCHANGED <<draws, tickets, now, req, ops>>

(* draw.get_draw_statistics() on draw 1, its first statement:              *)
(* total_tickets = self.forged_keys.count(); input keeps the instance      *)
StatCount ==
    /\ obj.hist = <<>>
    /\ obj' = [NoObj EXCEPT !.cls = "Draw", !.input = draws[1],
                            !.arg = Cardinality(TicketsOf(1)),
                            !.hist = <<"count">>]
    /\ UNCHANGED <<draws, tickets, now, req, ops>>

(* the rest of get_draw_statistics: the SELECT of map_nearest_winner and   *)
(* the dictionary                                                           *)
StatStatistics ==
    /\ obj.hist = <<"count">>
    /\ obj' = [obj EXCEPT !.out = get_draw_statistics(1, obj.input, obj.arg),
                          !.hist = <<"statistics">>]
    /\ UNCHANGED <<draws, tickets, now, req, ops>>

(* ForgedKey(user_wallet, draw, serial_number).save() by another thread,   *)
(* with star_keys unset or set by set_star_keys, while get_draw_statistics *)
(* is between its two statements: a ticket saved before the call is a row  *)
(* of InitStats, one saved after it does not reach the result.  The token  *)
(* set_star_keys makes is one no stored row holds.                          *)
ForgedKeySave ==
    /\ obj.hist = <<"count">>
    /\ ops < MaxSaves
    /\ \E field \in {None} \cup {set_star_keys(k, n) : k \in KeyFamily({1}, {0, 1}),
                                                        n \in Nonces},
          n0 \in Nonces :
         /\ field # None =>
               /\ \A t \in 1..Len(tickets) : tickets[t].star_keys # field
               /\ \A d \in 1..Len(draws) : draws[d].star_keys # field
         /\ LET i == Len(tickets) + 1 IN
            tickets' = Append(tickets,
                              [user_wallet |-> StatWallet(i), draw |-> 1,
                               serial_number |-> serial_number(1, StatWallet(i), i),
                               star_keys |-> save_field(field, n0)])
    /\ ops' = ops + 1
    /\ UNCHANGED <<draws, now, req, obj>>

NextStats == StatNearest \/ StatCount \/ StatStatistics \/ ForgedKeySave

SpecStats == InitStats /\ [][NextStats]_vars

(* -------------------- what the tickets disclose ----------------------- *)
(* ForgedKey.is_winner of the ticket row fk whose draw row is drw *)
is_winner(fk, drw) ==
    IF drw.status # "ENDED" THEN FALSE
    ELSE drw.winning_ticket_serial = fk.serial_number

(* ForgedKey.get_match_count of the ticket row fk whose draw row is drw *)
get_match_count(fk, drw) ==
    IF drw.status # "ENDED" THEN 0
    ELSE LET draw_keys == SetOf(get_star_keys(drw.star_keys))
             user_keys == SetOf(get_star_keys(fk.star_keys))
         IN Cardinality(draw_keys \cap user_keys)

(* user_keys, its query for one of the tickets it lists: the row of ticket *)
(* t joined with the status of its draw (select_related, only); star_keys  *)
(* of the ticket and the other columns of the draw are deferred            *)
KeySelect ==
    /\ obj.hist = <<>>
    /\ \E t \in DOMAIN tickets :
         obj' = [NoObj EXCEPT !.cls = "ForgedKey", !.arg = t,
                              !.input = [serial_number |-> tickets[t].serial_number,
                                         draw |-> tickets[t].draw,
                                         status |-> draws[tickets[t].draw].status],
                              !.hist = <<"select">>]
    /\ UNCHANGED <<draws, tickets, now, req, ops>>

(* key.is_winner() on that instance: the status is the one the query read, *)
(* winning_ticket_serial is loaded now, by a SELECT of its own, when the    *)
(* status is ENDED                                                          *)
KeyIsWinner ==
    /\ obj.hist = <<"select">>
    /\ obj' = [obj EXCEPT
                 !.out = is_winner(obj.input,
                                   [status |-> obj.input.status,
                                    winning_ticket_serial |->
                                        draws[obj.input.draw].winning_ticket_serial]),
                 !.hist = <<"is_winner">>]
    /\ UNCHANGED <<draws, tickets, now, req, ops>>

(* key.get_match_count() on that instance, after is_winner: it returns 0   *)
(* for a status other than ENDED (user_keys calls it for ENDED only), else  *)
(* self.draw.get_star_keys() loads the star_keys of the draw                *)
KeyGetMatchCountDraw ==
    /\ obj.hist = <<"is_winner">>
    /\ obj' = IF obj.input.status # "ENDED"
              THEN [obj EXCEPT !.out = get_match_count(obj.input, obj.input),
                               !.hist = <<"get_match_count">>]
              ELSE [obj EXCEPT !.stored = draws[obj.input.draw].star_keys,
                               !.hist = <<"draw_keys">>]
    /\ UNCHANGED <<draws, tickets, now, req, ops>>

(* the rest of get_match_count: self.get_star_keys() loads the star_keys   *)
(* of the ticket, and the two sets are intersected                          *)
KeyGetMatchCount ==
    /\ obj.hist = <<"draw_keys">>
    /\ obj' = [obj EXCEPT
                 !.out = get_match_count([star_keys |-> tickets[obj.arg].star_keys],
                                         [status |-> obj.input.status,
                                          star_keys |-> obj.stored]),
                 !.hist = <<"get_match_count">>]
    /\ UNCHANGED <<draws, tickets, now, req, ops>>

(* ForgedKey(user_wallet, draw, serial_number).save() by another thread,   *)
(* star_keys being set by set_star_keys (a token no row holds) or given as *)
(* the token of a stored draw, which save leaves as it is; at most         *)
(* MaxSaves tickets are saved with a token                                  *)
KeySave ==
    /\ Cardinality({t \in 1..Len(tickets) : tickets[t].star_keys # None}) < MaxSaves
    /\ \E d \in 1..Len(draws), n0 \in Nonces,
          field \in {set_star_keys(k, n) : k \in KeyFamily({1}, {0}), n \in Nonces} :
         LET i == Len(tickets) + 1
             serial == serial_number(d, StatWallet(i), i)
         IN /\ \/ /\ \A t \in 1..Len(tickets) : tickets[t].star_keys # field
                  /\ \A e \in 1..Len(draws) : draws[e].star_keys # field
               \/ \E e \in 1..Len(draws) : draws[e].star_keys = field
            /\ serial_unique(serial)
            /\ tickets' = Append(tickets,
                                 [user_wallet |-> StatWallet(i), draw |-> d,
                                  serial_number |-> serial,
                                  star_keys |-> save_field(field, n0)])
    /\ UNCHANGED <<draws, now, req, ops, obj>>

(* The statements of user_keys from the empty database, and between them   *)
(* every writer of the rows they read: create_draw, the status changes,    *)
(* submit_keys, process_draw with the save of map_winner, ForgedKey.save.  *)
NextViews ==
    \/ KeySelect
    \/ KeyIsWinner
    \/ KeyGetMatchCountDraw
    \/ KeyGetMatchCount
    \/ KeySave
    \/ Tick
    \/ \E d \in Draws : Activate(d) \/ Cancel(d)
    \/ \E r \in Reqs :
         \/ CreateDraw(r) \/ CreateDrawSave(r)
         \/ SubmitStart(r) \/ SubmitExists(r) \/ SubmitCount(r) \/ SubmitCreate(r)
         \/ ProcessStart(r) \/ ProcessMapWinner(r) \/ ProcessSave(r) \/ ProcessUpdate(r)

SpecViews == Init /\ [][NextViews]_vars

(* ------------------------------ the claims ----------------------------- *)
Done(r, op) == req[r].pc = "done" /\ req[r].op = op

(* the step is the first step of a request of worker r running op *)
Starts(r, op) == ops' = ops + 1 /\ req'[r].id = ops' /\ req'[r].op = op

(* C1: there is at most one ticket per (wallet, draw) pair, also when two  *)
(* submissions of one wallet for one draw run concurrently.                *)
C1_OneTicketPerWalletDraw ==
    \A t, u \in 1..Len(tickets) :
        (tickets[t].user_wallet = tickets[u].user_wallet /\ tickets[t].draw = tickets[u].draw)
            => t = u

(* C2: no two tickets of the whole system have the same serial number.     *)
C2_SerialsUnique ==
    \A t, u \in 1..Len(tickets) :
        tickets[t].serial_number = tickets[u].serial_number => t = u

(* two submissions computed the same serial: one ticket, one IntegrityError *)
C2_Witness ==
    /\ Len(tickets) >= 1
    /\ \E r \in Reqs : Done(r, "submit_keys") /\ req[r].error = "Submission failed"

(* C3: once the stored status of a draw is ENDED or CANCELLED, no step    *)
(* changes it.                                                             *)
C3_TerminalStatus ==
    [][\A d \in 1..Len(draws) :
          draws[d].status \in {"ENDED", "CANCELLED"}
              => draws'[d].status = draws[d].status]_vars

(* C4: process_draw invoked on a draw that is not ACTIVE, or whose         *)
(* scheduled datetime is in the future, answers with a failure at once,    *)
(* runs no winner resolution and leaves every stored row as it was.        *)
C4_ProcessRejected ==
    [][\A r \in Reqs :
          (/\ Starts(r, "process_draw")
           /\ \/ draws[req'[r].draw].status # "ACTIVE"
              \/ draws[req'[r].draw].draw_datetime > now)
              => /\ req'[r].pc = "done"
                 /\ ~req'[r].success
                 /\ draws' = draws
                 /\ tickets' = tickets]_vars

(* an invocation on an already ENDED draw was rejected *)
C4_Witness ==
    \E r \in Reqs :
        /\ Done(r, "process_draw")
        /\ req[r].error = "Draw cannot be processed"
        /\ draws[req[r].draw].status = "ENDED"

(* C5: among the process_draw invocations on one draw at most one reports  *)
(* success.                                                                *)
C5_ProcessedOnce ==
    \A r, q \in Reqs :
        (/\ Done(r, "process_draw") /\ req[r].success
         /\ Done(q, "process_draw") /\ req[q].success
         /\ req[r].draw = req[q].draw)
            => r = q

(* C6: a privileged process_draw that passes the guard (ACTIVE, schedule   *)
(* passed) reports success and the draw is ENDED; with an exact match its  *)
(* serial and wallet are recorded and 70% of the pool is distributed.      *)
C6_ProcessSucceeds ==
    \A r \in Reqs :
        (Done(r, "process_draw")
         /\ req[r].error \notin {"Admin access required", "Draw cannot be processed"})
            => LET d == draws[req[r].draw]
                   w == req[r].winner
               IN /\ req[r].success
                  /\ d.status = "ENDED"
                  /\ w # 0 => /\ d.winning_ticket_serial = tickets[w].serial_number
                              /\ d.winner_wallet = tickets[w].user_wallet
                              /\ 10 * d.total_prize_distributed = 7 * d.prize_pool

(* C7: the ticket map_winner returns is one ticket of the draw, and its    *)
(* decrypted combination is the draw's decrypted winning combination.      *)
C7_ExactWinner ==
    \A r \in Reqs :
        (req[r].op = "process_draw" /\ req[r].winner # 0)
            => /\ req[r].winner \in 1..Len(tickets)
               /\ tickets[req[r].winner].draw = req[r].draw
               /\ get_star_keys(tickets[req[r].winner].star_keys)
                     = get_star_keys(draws[req[r].draw].star_keys)
               /\ Len(get_star_keys(draws[req[r].draw].star_keys)) = KeyLen

(* map_winner returned a ticket while a newer ticket of another draw holds *)
(* the token of the draw's winning combination                              *)
C7_Witness ==
    \E r \in Reqs :
        /\ req[r].op = "process_draw" /\ req[r].winner # 0
        /\ \E t \in 1..Len(tickets) :
               /\ t > req[r].winner
               /\ tickets[t].draw # req[r].draw
               /\ tickets[t].star_keys = draws[req[r].draw].star_keys

(* C8: two encryptions of the same combination give the same ciphertext.   *)
C8_EncryptDeterministic ==
    (Len(obj.hist) >= 2 /\ obj.hist[Len(obj.hist)] = "set" /\ obj.prev # <<>>)
        => obj.field = obj.prev

(* C9: set_star_keys followed by get_star_keys returns the combination,    *)
(* in its order.                                                           *)
C9_RoundTrip ==
    (/\ Len(obj.hist) >= 2
     /\ obj.hist[Len(obj.hist)] = "get"
     /\ obj.hist[Len(obj.hist) - 1] = "set")
        => obj.out = obj.input

C9_Witness ==
    /\ Len(obj.hist) >= 2
    /\ obj.hist[Len(obj.hist)] = "get"
    /\ obj.hist[Len(obj.hist) - 1] = "set"
    /\ Len(obj.out) = KeyLen
    /\ \E i, j \in 1..KeyLen : obj.out[i] # obj.out[j]

(* C10: a save of an instance whose secret field holds ciphertext leaves   *)
(* the field as it is and stores that value; a save right after a save     *)
(* stores what the first one stored.                                       *)
C10_SaveIdempotent ==
    [][(obj'.hist = Append(obj.hist, "save"))
          => /\ IsToken(obj.field) => (obj'.field = obj.field /\ obj'.stored = obj.field)
             /\ (obj.hist # <<>> /\ obj.hist[Len(obj.hist)] = "save")
                   => obj'.stored = obj.stored]_vars

(* ciphertext was saved twice in a row *)
C10_Witness ==
    /\ Len(obj.hist) >= 2
    /\ obj.hist[Len(obj.hist)] = "save"
    /\ obj.hist[Len(obj.hist) - 1] = "save"
    /\ IsToken(obj.stored)

(* the symbols the stored ticket t shares with the stored draw d *)
Shared(t, d) ==
    SetOf(get_star_keys(tickets[t].star_keys)) \cap SetOf(get_star_keys(draws[d].star_keys))

(* C11: every entry map_nearest_winner(min_matches=t) returns is a ticket  *)
(* of the draw that shares at least t symbols (as sets) with the winning   *)
(* combination, its match_count is the number of shared symbols, and the   *)
(* list is in non-increasing order of match_count.                         *)
C11_NearestSound ==
    (obj.hist = <<"nearest">>)
        => /\ \A i \in 1..Len(obj.out) :
                 /\ obj.out[i].forged_key \in 1..Len(tickets)
                 /\ tickets[obj.out[i].forged_key].draw = 1
                 /\ LET shared == Cardinality(Shared(obj.out[i].forged_key, 1)) IN
                    shared >= obj.arg /\ obj.out[i].match_count = shared
           /\ \A i, j \in 1..Len(obj.out) :
                 i < j => obj.out[i].match_count >= obj.out[j].match_count

(* a list of two entries or more whose counts differ, returned while an    *)
(* older ticket counts more than a newer one and a ticket is left out      *)
C11_Witness ==
    /\ obj.hist = <<"nearest">>
    /\ Len(obj.out) >= 2
    /\ obj.out[1].match_count > obj.out[Len(obj.out)].match_count
    /\ obj.out[1].forged_key < obj.out[Len(obj.out)].forged_key
    /\ Len(obj.out) < Cardinality(TicketsOf(1))

(* A float as a number in fixed point: FixedDigits digits to the base      *)
(* DigitBase, the first IntDigits of them before the point.                *)
FixedZero == [l \in 1..FixedDigits |-> 0]

FixedOf(x) ==
    LET m == <<x.lead>> \o x.frac
        first == IntDigits - (x.exp \div DigitBits)
    IN times_plus([l \in 1..FixedDigits |->
                      IF l - first + 1 \in 1..Len(m) THEN m[l - first + 1] ELSE 0],
                  2^(x.exp % DigitBits), 0).digits

RECURSIVE fixed_add(_, _)
fixed_add(a, b) ==
    IF a = <<>> THEN [digits |-> <<>>, carry |-> 0]
    ELSE LET rest == fixed_add(Tail(a), Tail(b))
             sum == Head(a) + Head(b) + rest.carry
         IN [digits |-> <<sum % DigitBase>> \o rest.digits,
             carry |-> sum \div DigitBase]

FixedAdd(a, b) == fixed_add(a, b).digits

FixedTimes(a, k) == times_plus(a, k, 0).digits

RECURSIVE FixedSum(_)
FixedSum(l) ==
    IF l = <<>> THEN FixedZero ELSE FixedAdd(FixedOf(Head(l).amount), FixedSum(Tail(l)))

RECURSIVE IntOfDigits(_, _)
IntOfDigits(a, n) == IF n = 0 THEN 0 ELSE DigitBase * IntOfDigits(a, n - 1) + a[n]

IntPart(a) == IntOfDigits(a, IntDigits)

Whole(a) == \A l \in (IntDigits + 1)..FixedDigits : a[l] = 0

(* the float x is the number p / q *)
FloatIs(x, p, q) == LET a == FixedTimes(FixedOf(x), q) IN Whole(a) /\ IntPart(a) = p

(* the number a is at most the integer p *)
FixedAtMost(a, p) == IntPart(a) < p \/ (IntPart(a) = p /\ Whole(a))

(* the tickets of draw d that share at least n symbols with its combination *)
Qualifying(d, n) == {t \in TicketsOf(d) : Cardinality(Shared(t, d)) >= n}

(* C12: get_draw_statistics computes a prize distribution for an ENDED     *)
(* draw with a recorded winner; in it the jackpot amount is 7/10 of the    *)
(* pool, every secondary winner gets 2/10 of the pool divided by           *)
(* min(5, number of tickets sharing at least 4 symbols), at most 5         *)
(* secondary winners are listed and all amounts together are at most 9/10  *)
(* of the pool.                                                             *)
C12_PrizeDistribution ==
    (obj.hist = <<"statistics">>)
        => LET pd == obj.out.prize_distribution
               pool == draws[1].prize_pool
               q == Cardinality(Qualifying(1, 4))
           IN /\ pd.computed = (draws[1].status = "ENDED" /\ draws[1].winner_wallet # NoWallet)
              /\ pd.computed =>
                    /\ FloatIs(pd.jackpot_winner.amount, 7 * pool, 10)
                    /\ \A i \in 1..Len(pd.secondary_winners) :
                          FloatIs(pd.secondary_winners[i].amount, 2 * pool, 10 * Min(5, q))
                    /\ Len(pd.secondary_winners) <= 5
                    /\ FixedAtMost(FixedTimes(FixedAdd(FixedOf(pd.jackpot_winner.amount),
                                                        FixedSum(pd.secondary_winners)), 10),
                                   9 * pool)

(* calculate_rarity was the last call, on an instance that holds its      *)
(* combination                                                              *)
RarityOf(k) ==
    /\ obj.hist # <<>> /\ obj.hist[Len(obj.hist)] = "rarity"
    /\ obj.input = k
    /\ get_star_keys(obj.field) = k

(* C13: for a combination of six symbols in 0..9 calculate_rarity returns  *)
(* Rare if the six are pairwise distinct, else Epic if all are even, else  *)
(* Epic if all are odd, else Legendary if all are identical, else Common;  *)
(* six identical digits are Epic and Legendary is never returned.          *)
C13_RarityRules ==
    \A k \in CodecKeys \cup PatternKeys :
        (RarityOf(k) /\ valid_keys(k))
            => LET distinct == \A i, j \in 1..KeyLen : k[i] = k[j] => i = j
                   even == \A i \in 1..KeyLen : k[i] % 2 = 0
                   odd == \A i \in 1..KeyLen : k[i] % 2 = 1
                   same == \A i \in 1..KeyLen : k[i] = k[1]
               IN /\ obj.label = IF distinct THEN "Rare"
                                 ELSE IF even THEN "Epic"
                                 ELSE IF odd THEN "Epic"
                                 ELSE IF same THEN "Legendary"
                                 ELSE "Common"
                  /\ same => obj.label = "Epic"
                  /\ obj.label # "Legendary"

(* six identical digits were classified *)
C13_Witness ==
    \E k \in CodecKeys : RarityOf(k) /\ (\A i \in 1..KeyLen : k[i] = k[1]) /\ obj.label = "Epic"

(* C14, as stated: [1,3,1,3,1,3] is Common, [1,2,3,4,5,6] is Rare,         *)
(* [2,2,4,4,6,6], [1,1,1,1,1,1] and [3,3,3,3,3,3] are Epic.                *)
C14_SampleLabels ==
    /\ RarityOf(<<1, 3, 1, 3, 1, 3>>) => obj.label = "Common"
    /\ RarityOf(<<1, 2, 3, 4, 5, 6>>) => obj.label = "Rare"
    /\ RarityOf(<<2, 2, 4, 4, 6, 6>>) => obj.label = "Epic"
    /\ RarityOf(<<1, 1, 1, 1, 1, 1>>) => obj.label = "Epic"
    /\ RarityOf(<<3, 3, 3, 3, 3, 3>>) => obj.label = "Epic"

(* C14, amended: [1,3,1,3,1,3] is Epic (its six symbols are all odd); the  *)
(* other four labels are as stated.                                        *)
C14_SampleLabelsAmended ==
    /\ RarityOf(<<1, 3, 1, 3, 1, 3>>) => obj.label = "Epic"
    /\ RarityOf(<<1, 2, 3, 4, 5, 6>>) => obj.label = "Rare"
    /\ RarityOf(<<2, 2, 4, 4, 6, 6>>) => obj.label = "Epic"
    /\ RarityOf(<<1, 1, 1, 1, 1, 1>>) => obj.label = "Epic"
    /\ RarityOf(<<3, 3, 3, 3, 3, 3>>) => obj.label = "Epic"

C14_Witness == RarityOf(<<1, 3, 1, 3, 1, 3>>) /\ obj.label = "Epic"

(* the body of a submission: six entries, each in 0..9 *)
WellFormed(k) == Len(k) = 6 /\ \A i \in 1..Len(k) : k[i] >= 0 /\ k[i] <= 9

(* C15: a submission to a participable draw whose star_keys has not        *)
(* exactly six entries, or has an entry outside 0..9, is answered with a   *)
(* failure at once: no ticket is created, no serial is allocated and no    *)
(* draw row (total_tickets_sold included) changes.                         *)
C15_InvalidRejected ==
    [][\A r \in Reqs :
          (/\ Starts(r, "submit_keys")
           /\ can_participate(draws[req'[r].draw].status,
                               draws[req'[r].draw].draw_datetime, now)
           /\ ~WellFormed(req'[r].keys))
              => /\ req'[r].pc = "done"
                 /\ ~req'[r].success
                 /\ req'[r].serial = NoSerial
                 /\ tickets' = tickets
                 /\ draws' = draws]_vars

(* a body of six entries, one of them 10, was rejected while the draw      *)
(* accepts submissions                                                      *)
C15_Witness ==
    \E r \in Reqs :
        /\ Done(r, "submit_keys")
        /\ req[r].error = "Invalid keys format"
        /\ Len(req[r].keys) = 6
        /\ \E i \in 1..6 : req[r].keys[i] = 10
        /\ can_participate(draws[req[r].draw].status, draws[req[r].draw].draw_datetime, now)

(* C16: a ticket is created only while its draw is participable: at the    *)
(* step that commits a ticket the draw is UPCOMING or ACTIVE and its        *)
(* scheduled datetime lies in the future.                                   *)
C16_CreatedWhileParticipable ==
    [][\A r \in Reqs :
          (req[r].pc = "sk_create" /\ Len(tickets') = Len(tickets) + 1)
              => can_participate(draws[req[r].draw].status,
                                 draws[req[r].draw].draw_datetime, now)]_vars

(* the fields of a Draw row that processing may write *)
Processed(row) ==
    <<row.status, row.winner_wallet, row.winning_ticket_serial,
      row.total_prize_distributed, row.total_tickets_sold>>

(* C17: when a process_draw invocation ends with a failure, the stored     *)
(* status, winner wallet, winning ticket serial, distributed total and     *)
(* ticket counter of its draw are what they were when it was invoked.      *)
C17_AllOrNothing ==
    [][\A r \in Reqs :
          /\ (Starts(r, "process_draw") /\ req'[r].pc = "done" /\ ~req'[r].success)
                => draws' = draws
          /\ (/\ req[r].op = "process_draw" /\ req[r].pc \in {"pd_winner", "pd_save", "pd_update"}
              /\ req'[r].pc = "done" /\ ~req'[r].success)
                => Processed(draws'[req[r].draw]) = Processed(req[r].read)]_vars

(* C18: the winning combination of a stored draw is six symbols in 0..9    *)
(* and no step changes it.                                                  *)
C18_KeysFixed ==
    [][\A d \in 1..Len(draws') :
          /\ valid_keys(get_star_keys(draws'[d].star_keys))
          /\ d <= Len(draws)
                => get_star_keys(draws'[d].star_keys) = get_star_keys(draws[d].star_keys)]_vars

(* C19: create_draw and process_draw invoked by a caller who is not staff  *)
(* answer with a failure at once; no row is created or changed and no      *)
(* winner resolution runs.                                                  *)
C19_NonStaffRejected ==
    [][\A r \in Reqs :
          ((Starts(r, "create_draw") \/ Starts(r, "process_draw")) /\ ~req'[r].staff)
              => /\ req'[r].pc = "done"
                 /\ ~req'[r].success
                 /\ req'[r].error = "Admin access required"
                 /\ draws' = draws
                 /\ tickets' = tickets]_vars

(* a caller who is not staff was refused process_draw on a draw that a     *)
(* staff caller could have processed                                        *)
C19_Witness ==
    \E r \in Reqs :
        /\ Done(r, "process_draw")
        /\ ~req[r].staff
        /\ req[r].error = "Admin access required"
        /\ ~cannot_process(draws[req[r].draw].status, draws[req[r].draw].draw_datetime, now)

(* C20: when map_winner runs for a draw whose tickets were all committed   *)
(* before process_draw read the draw, and one of them was submitted with   *)
(* success with the draw's winning combination, map_winner returns a       *)
(* ticket and the draw records its serial and its wallet.                   *)
C20_ExactMatchFound ==
    [][\A r \in Reqs :
          (/\ req[r].pc \in {"pd_winner", "pd_save"} /\ req'[r].pc = "pd_update"
           /\ Cardinality(TicketsOf(req[r].draw)) <= req[r].read.total_tickets_sold
           /\ \E q \in Reqs :
                 /\ Done(q, "submit_keys") /\ req[q].success
                 /\ req[q].draw = req[r].draw
                 /\ \E t \in TicketsOf(req[r].draw) :
                        tickets[t].serial_number = req[q].serial
                 /\ req[q].keys = get_star_keys(draws[req[r].draw].star_keys))
              => /\ req'[r].winner # 0
                 /\ draws'[req[r].draw].winning_ticket_serial # NoSerial
                 /\ draws'[req[r].draw].winner_wallet # NoWallet]_vars

(* the per-draw sequence component of a serial: its last four characters *)
SequenceOf(serial) == SubSeq(serial, Len(serial) - SerialWidth + 1, Len(serial))

(* C21: no two tickets of one draw carry the same sequence component in    *)
(* their serial, and the sequence components of the n tickets of a draw    *)
(* are those of 1..n.                                                       *)
C21_SequenceUnique ==
    \A d \in 1..Len(draws) :
        /\ \A t, u \in TicketsOf(d) :
              SequenceOf(tickets[t].serial_number) = SequenceOf(tickets[u].serial_number)
                  => t = u
        /\ {SequenceOf(tickets[t].serial_number) : t \in TicketsOf(d)}
              = {ZeroPad(DigitsOf(i), SerialWidth) : i \in 1..Cardinality(TicketsOf(d))}

(* C25: after a submit_keys request answered success, the ticket stored    *)
(* under its serial holds ciphertext whose decryption is the six submitted *)
(* symbols.                                                                 *)
C25_SubmittedKeysStored ==
    \A r \in Reqs :
        (Done(r, "submit_keys") /\ req[r].success)
            => \E t \in TicketsOf(req[r].draw) :
                  /\ tickets[t].serial_number = req[r].serial
                  /\ IsToken(tickets[t].star_keys)
                  /\ get_star_keys(tickets[t].star_keys) = req[r].keys

(* C26: the total_tickets_sold of every draw is the number of tickets      *)
(* stored for it (a submission transaction is one step: no state lies      *)
(* inside one).                                                             *)
C26_CounterMatches ==
    \A d \in 1..Len(draws) : draws[d].total_tickets_sold = Cardinality(TicketsOf(d))

(* C27: a draw has a winning ticket serial or a winner wallet only if its  *)
(* status is ENDED, and then the serial is that of a ticket of the draw    *)
(* owned by the winner wallet.                                              *)
C27_WinnerOnlyIfEnded ==
    \A d \in 1..Len(draws) :
        (draws[d].winning_ticket_serial # NoSerial \/ draws[d].winner_wallet # NoWallet)
            => /\ draws[d].status = "ENDED"
               /\ \E t \in TicketsOf(d) :
                     /\ tickets[t].serial_number = draws[d].winning_ticket_serial
                     /\ tickets[t].user_wallet = draws[d].winner_wallet

(* C22: when the winning combination has six symbols (repeated digits     *)
(* allowed), map_nearest_winner(min_matches=t) returns every ticket of the *)
(* draw that shares at least t symbols, as sets, with it.                   *)
C22_NearestComplete ==
    (obj.hist = <<"nearest">> /\ Len(get_star_keys(draws[1].star_keys)) = 6)
        => \A t \in Qualifying(1, obj.arg) :
              \E i \in 1..Len(obj.out) : obj.out[i].forged_key = t

(* C23: two entries of the list map_nearest_winner returns that have the   *)
(* same match_count are in the order of retrieval, the newer ticket first.  *)
C23_StableOrder ==
    (obj.hist = <<"nearest">>)
        => \A i, j \in 1..Len(obj.out) :
              (i < j /\ obj.out[i].match_count = obj.out[j].match_count)
                  => obj.out[i].forged_key > obj.out[j].forged_key

(* two entries with the same count behind an older ticket that counts more *)
C23_Witness ==
    /\ obj.hist = <<"nearest">>
    /\ Len(obj.out) = 3
    /\ obj.out[1].match_count > obj.out[2].match_count
    /\ obj.out[2].match_count = obj.out[3].match_count
    /\ obj.out[1].forged_key < obj.out[3].forged_key

(* the stored combination is missing, does not decrypt or does not parse *)
Unreadable(field) ==
    \/ Falsy(field)
    \/ ~decrypt_data(field).ok
    \/ ~JsonLoads(decrypt_data(field).val).ok

(* C24: a ticket whose stored combination is missing, does not decrypt or  *)
(* does not parse is in no list map_nearest_winner returns, whatever the   *)
(* threshold.                                                               *)
C24_UnreadableSkipped ==
    (obj.hist = <<"nearest">>)
        => \A i \in 1..Len(obj.out) : ~Unreadable(tickets[obj.out[i].forged_key].star_keys)

(* C28: for an ENDED draw without a recorded exact-match winner and with   *)
(* at least one ticket sharing 4 symbols or more, get_draw_statistics      *)
(* lists min(5, number of such tickets) secondary winners, each with 2/10  *)
(* of the pool divided by that number.                                      *)
C28_SecondaryWithoutJackpot ==
    (/\ obj.hist = <<"statistics">>
     /\ draws[1].status = "ENDED"
     /\ draws[1].winner_wallet = NoWallet
     /\ exact_match(1, draws[1].star_keys) = 0
     /\ Qualifying(1, 4) # {})
        => LET sw == obj.out.prize_distribution.secondary_winners
               n == Min(5, Cardinality(Qualifying(1, 4)))
           IN /\ Len(sw) = n
              /\ \A i \in 1..Len(sw) :
                    /\ \E t \in Qualifying(1, 4) : tickets[t].serial_number = sw[i].ticket_serial
                    /\ FloatIs(sw[i].amount, 2 * draws[1].prize_pool, 10 * n)

(* C29: in the prize distribution of an ENDED draw the serial of the       *)
(* jackpot ticket is not among the secondary winners, and no serial is     *)
(* twice among the secondary winners.                                       *)
C29_NoDoublePay ==
    (obj.hist = <<"statistics">> /\ draws[1].status = "ENDED")
        => LET pd == obj.out.prize_distribution IN
           /\ \A i \in 1..Len(pd.secondary_winners) :
                 pd.secondary_winners[i].ticket_serial # pd.jackpot_winner.ticket_serial
           /\ \A i, j \in 1..Len(pd.secondary_winners) :
                 pd.secondary_winners[i].ticket_serial = pd.secondary_winners[j].ticket_serial
                     => i = j

(* the draw row of draw d with another winning combination stored *)
OtherWinning(d) ==
    {[draws[d] EXCEPT !.star_keys = set_star_keys(k, 1)] : k \in StatWinning \cup ShiftKeys}

(* the step is the one in which the request of worker r running op answers *)
Answers(r, op) == req[r].pc # "done" /\ req'[r].pc = "done" /\ req'[r].op = op

(* C30, the methods: is_winner is true and get_match_count is not zero     *)
(* only if the draw of the ticket is ENDED; for a draw in any other status *)
(* both results are the same whatever winning combination the draw stores. *)
C30_MethodsSecret ==
    /\ (obj.hist = <<"is_winner">>)
          => LET fk == tickets[obj.arg] IN
             /\ obj.out => draws[fk.draw].status = "ENDED"
             /\ draws[fk.draw].status # "ENDED"
                   => \A other \in OtherWinning(fk.draw) : is_winner(fk, other) = obj.out
    /\ (obj.hist = <<"get_match_count">>)
          => LET fk == tickets[obj.arg] IN
             /\ obj.out # 0 => draws[fk.draw].status = "ENDED"
             /\ draws[fk.draw].status # "ENDED"
                   => \A other \in OtherWinning(fk.draw) :
                         get_match_count(fk, other) = obj.out

(* the match count of a ticket that shares symbols with the winning        *)
(* combination of its ACTIVE draw was asked for, and is 0                   *)
C30_MethodsWitness ==
    /\ obj.hist = <<"get_match_count">>
    /\ draws[tickets[obj.arg].draw].status = "ACTIVE"
    /\ Cardinality(Shared(obj.arg, tickets[obj.arg].draw)) >= 4
    /\ obj.out = 0

(* C30, the view: when draw_detail answers with the winning keys the draw  *)
(* is stored as ENDED.                                                      *)
C30_DetailSecret ==
    \A r \in Reqs :
        (Answers(r, "draw_detail") /\ "winning_keys" \in DOMAIN req'[r].out)
            => draws'[req'[r].draw].status = "ENDED"

(* C30: the response of draw_detail has the winning keys, is_winner is     *)
(* true and get_match_count is not zero only when the status of the draw   *)
(* is ENDED; for a draw in any other status none of them depends on the    *)
(* winning combination.                                                     *)
C30_SecretUntilEnded == [][C30_DetailSecret]_vars /\ []C30_MethodsSecret

====
